---- MODULE Spec2Model ----
(***************************************************************************)
(* Model of budget_invest_app.py: one Streamlit script run after another.  *)
(* A run reads the sidebar widgets, asks Alpha Vantage for the SPY and AGG *)
(* monthly returns, projects the net worth month by month, and then talks  *)
(* to Botpress.  st.session_state survives from one run to the next.       *)
(*                                                                         *)
(* A Python float is modelled as [n, d, e]: the fraction n/d in lowest      *)
(* terms (d > 0) times 10^(200*e).  Sums and products of one magnitude are *)
(* exact; a sum of two magnitudes keeps the larger term, as a float does   *)
(* when the smaller one is below its last bit.  A power that leaves the    *)
(* float range raises OverflowError.  Rounding, NaN and infinities are     *)
(* outside the model.                                                      *)
(***************************************************************************)
EXTENDS Integers, Sequences, FiniteSets, TLC

\* ------------------------------------------------------------------ bounds
MaxMonths == 2      \* horizons explored: 1..MaxMonths (the slider allows 1..60)
MaxSeries == 2      \* longest time series a quote response carries

\* --------------------------------------------------------- float arithmetic
Abs(x) == IF x < 0 THEN 0 - x ELSE x

RECURSIVE GCD(_, _)
GCD(a, b) == IF b = 0 THEN a ELSE GCD(b, a % b)

LCM(a, b) == (a \div GCD(a, b)) * b

\* the float n/d, d # 0
Rat(n, d) ==
    LET g == GCD(Abs(n), Abs(d))
        s == IF d < 0 THEN 0 - 1 ELSE 1
    IN  [n |-> s * (n \div g), d |-> s * (d \div g), e |-> 0]

Zero == Rat(0, 1)
One == Rat(1, 1)

\* the float 1e200
Big == [n |-> 1, d |-> 1, e |-> 1]

\* x scaled to the magnitude k; zero has magnitude 0
Scaled(x, k) == IF x.n = 0 THEN Zero ELSE [n |-> x.n, d |-> x.d, e |-> k]

RatAdd(x, y) ==
    IF x.n = 0 THEN y
    ELSE IF y.n = 0 THEN x
    ELSE IF x.e > y.e THEN x
    ELSE IF y.e > x.e THEN y
    ELSE LET l == LCM(x.d, y.d)
         IN  Scaled(Rat(x.n * (l \div x.d) + y.n * (l \div y.d), l), x.e)

RatNeg(x) == [n |-> 0 - x.n, d |-> x.d, e |-> x.e]

RatSub(x, y) == RatAdd(x, RatNeg(y))

RatMul(x, y) ==
    LET g1 == GCD(Abs(x.n), y.d)
        g2 == GCD(Abs(y.n), x.d)
    IN  IF x.n = 0 \/ y.n = 0 THEN Zero
        ELSE Scaled(Rat((x.n \div g1) * (y.n \div g2), (x.d \div g2) * (y.d \div g1)),
                    x.e + y.e)

\* x / y for y # 0
RatDiv(x, y) == RatMul(x, Scaled(Rat(y.d, y.n), 0 - y.e))

RECURSIVE RatPow(_, _)
RatPow(x, k) == IF k = 0 THEN One ELSE RatMul(x, RatPow(x, k - 1))

RatLeq(x, y) == RatSub(y, x).n >= 0

IsZero(x) == x.n = 0

\* floor(log2(q)) for an integer q >= 1
RECURSIVE FloorLog2(_)
FloorLog2(q) == IF q < 2 THEN 0 ELSE 1 + FloorLog2(q \div 2)

RECURSIVE Pow2(_)
Pow2(k) == IF k = 0 THEN 1 ELSE 2 * Pow2(k - 1)

\* Natural numbers of any size, for the one comparison that decides whether a
\* power is still a float: base-2^15 digits, least significant first, no
\* leading zero digit (so <<>> is 0).
DigitBase == 32768

\* the digits f[1..n] without their leading zeros
BigTrim(f, n) ==
    LET nonzero == {i \in 1..n : f[i] # 0}
    IN  IF nonzero = {} THEN <<>>
        ELSE SubSeq(f, 1, CHOOSE i \in nonzero : \A j \in nonzero : j <= i)

\* the number whose column sums are u[1..n], each at most 2 * DigitBase - 2:
\* a column receives a carry when a lower column overflows and every column
\* between the two is full
BigCarry(u, n) ==
    LET cin(i) == \E j \in 1..(i - 1) :
                      /\ u[j] >= DigitBase
                      /\ \A l \in (j + 1)..(i - 1) : u[l] = DigitBase - 1
        digit(i) == IF i > n THEN (IF cin(i) THEN 1 ELSE 0)
                    ELSE (u[i] + (IF cin(i) THEN 1 ELSE 0)) % DigitBase
    IN  BigTrim([i \in 1..(n + 1) |-> digit(i)] \o <<>>, n + 1)

\* x * s for 0 <= s <= DigitBase
BigMulSmall(x, s) ==
    LET n == Len(x)
        low(i) == IF i > n THEN 0 ELSE (x[i] * s) % DigitBase
        high(i) == IF i = 1 THEN 0 ELSE (x[i - 1] * s) \div DigitBase
    IN  BigCarry([i \in 1..(n + 1) |-> low(i) + high(i)] \o <<>>, n + 1)

BigAdd(x, y) ==
    LET n == IF Len(x) > Len(y) THEN Len(x) ELSE Len(y)
        at(z, i) == IF i > Len(z) THEN 0 ELSE z[i]
    IN  BigCarry([i \in 1..n |-> at(x, i) + at(y, i)] \o <<>>, n)

\* x * DigitBase^j
BigShift(x, j) == IF x = <<>> THEN <<>> ELSE [i \in 1..j |-> 0] \o x

\* x * q for an integer 0 <= q < 2^31, digit of q by digit
BigMulInt(x, q) ==
    LET q0 == q % DigitBase
        q1 == (q \div DigitBase) % DigitBase
        q2 == q \div (DigitBase * DigitBase)
    IN  BigAdd(BigAdd(BigMulSmall(x, q0), BigShift(BigMulSmall(x, q1), 1)),
               BigShift(BigMulSmall(x, q2), 2))

\* q^k for an integer q >= 1
RECURSIVE BigPow(_, _)
BigPow(q, k) ==
    IF k = 0 THEN <<1>>
    ELSE LET lower == BigPow(q, k - 1)
         IN  IF lower = <<>> THEN <<>> ELSE BigMulInt(lower, q)

BigGeq(x, y) ==
    IF Len(x) # Len(y) THEN Len(x) > Len(y)
    ELSE LET differ == {i \in 1..Len(x) : x[i] # y[i]}
             top == CHOOSE i \in differ : \A j \in differ : j <= i
         IN  differ = {} \/ x[top] > y[top]

\* floats end below 2^1024
FloatMaxBits == 1024

\* x * 2^FloatMaxBits: 2^1024 = 2^4 * (2^15)^68
BigTimesFloatLimit(x) ==
    BigShift(BigMulSmall(x, Pow2(FloatMaxBits % 15)), FloatMaxBits \div 15)

\* x**k is beyond the largest float: Python raises OverflowError.
\* A float of magnitude 10^200 is a float itself and its square is not; one
\* of ordinary magnitude n/d overflows when n^k >= 2^1024 * d^k, which the
\* binary exponent p of n/d settles unless 2^1024 lies in [2^(p*k), 2^((p+1)*k)).
PowOverflows(x, k) ==
    /\ x.n # 0
    /\ k >= 1
    /\ IF x.e >= 1 THEN k >= 2
       ELSE IF x.e < 0 THEN FALSE
       ELSE LET a == Abs(x.n)
                p == FloorLog2(a \div x.d)
            IN  /\ a > x.d
                /\ IF p * k >= FloatMaxBits THEN TRUE
                   ELSE IF (p + 1) * k < FloatMaxBits THEN FALSE
                   ELSE BigGeq(BigPow(a, k), BigTimesFloatLimit(BigPow(x.d, k)))

\* ------------------------------------------------------------ input domains
\* sidebar widgets, lines 34-52: the values a user can leave in each field
IncomeSet == {0, 5000}
TaxRateSet == {20}
HousingSet == {1200}
FoodSet == {500}
TransportSet == {300}
UtilitiesSet == {200}
EntertainmentSet == {200}
OthersSet == {200}
InvestSet == {0, 1000}
MonthsSet == 1..MaxMonths

\* the text of a "5. adjusted close" field, or the field missing altogether
CloseTexts == {"0", "1", "2", "1e200", "abc", "missing"}

RECURSIVE SeqsUpTo(_, _)
SeqsUpTo(S, k) ==
    IF k = 0 THEN {<<>>}
    ELSE LET shorter == SeqsUpTo(S, k - 1)
         IN  shorter \cup {Append(q, x) : q \in {t \in shorter : Len(t) = k - 1}, x \in S}

\* what requests.get may come back with
Responses ==
    {[net |-> "fail", status |-> 0, body |-> "none", series |-> <<>>]}
    \cup {[net |-> "ok", status |-> 500, body |-> "notjson", series |-> <<>>]}
    \cup {[net |-> "ok", status |-> 200, body |-> b, series |-> <<>>] : b \in {"notjson", "nokey"}}
    \cup {[net |-> "ok", status |-> 200, body |-> "series", series |-> q] :
             q \in SeqsUpTo(CloseTexts, MaxSeries)}

\* the typed Botpress message, as a sequence of characters
Messages == {<<>>, <<" ">>, <<" ", "a">>}

\* ------------------------------------------------------ the Return Estimator
NoneVal == [tag |-> "None", v |-> Zero, exc |-> "none"]
Value(x) == [tag |-> "float", v |-> x, exc |-> "none"]
Raise(e) == [tag |-> "raise", v |-> Zero, exc |-> e]

\* float(v["5. adjusted close"]) of one series entry
ParseClose(t) ==
    CASE t = "missing" -> Raise("KeyError")
      [] t = "0" -> Value(Rat(0, 1))
      [] t = "1" -> Value(Rat(1, 1))
      [] t = "2" -> Value(Rat(2, 1))
      [] t = "1e200" -> Value(Big)
      [] OTHER -> Raise("ValueError")

\* the list comprehension of line 26: the first entry that fails to parse raises
RECURSIVE ParseCloses(_)
ParseCloses(q) ==
    IF q = <<>> THEN [tag |-> "list", closes |-> <<>>, exc |-> "none"]
    ELSE LET h == ParseClose(Head(q))
             rest == ParseCloses(Tail(q))
         IN  IF h.tag = "raise" THEN [tag |-> "raise", closes |-> <<>>, exc |-> h.exc]
             ELSE IF rest.tag = "raise" THEN rest
             ELSE [tag |-> "list", closes |-> <<h.v>> \o rest.closes, exc |-> "none"]

get_alpha_vantage_monthly_return(resp) ==
    IF resp.net = "fail" THEN Raise("ConnectionError")
    ELSE IF resp.status # 200 THEN NoneVal
    ELSE IF resp.body = "notjson" THEN Raise("JSONDecodeError")
    ELSE LET ts == IF resp.body = "series" THEN resp.series ELSE <<>>
             parsed == ParseCloses(ts)
         IN  IF parsed.tag = "raise" THEN Raise(parsed.exc)
             ELSE IF Len(parsed.closes) < 2 THEN NoneVal
             ELSE IF IsZero(parsed.closes[2]) THEN Raise("ZeroDivisionError")
             ELSE Value(RatDiv(RatSub(parsed.closes[1], parsed.closes[2]), parsed.closes[2]))

\* the line of get_alpha_vantage_monthly_return an exception comes from
RaiseLine(e) ==
    CASE e = "ConnectionError" -> 21
      [] e = "JSONDecodeError" -> 24
      [] e = "ZeroDivisionError" -> 29
      [] OTHER -> 26

\* Python truthiness of an estimator result: None and 0.0 are falsy
Truthy(x) == x.tag = "float" /\ ~IsZero(x.v)

\* a variant that substitutes the fallback for None alone
OrElseNoneOnly(x, fallback) == IF x.tag = "float" THEN x.v ELSE fallback

\* `x or fallback`, lines 56-57
OrElse(x, fallback) == IF Truthy(x) THEN x.v ELSE fallback

StockFallback == Rat(1, 100)
BondFallback == Rat(3, 1000)
RealRate == Rat(4, 1000)
CryptoRate == Rat(2, 100)
FdRate == Rat(3, 1000)

\* ------------------------------------------------------ the net-worth projector
AfterTaxIncome(inc, tax) == RatMul(Rat(inc, 1), RatSub(One, Rat(tax, 100)))

Sum3(a, b, c) == RatAdd(RatAdd(a, b), c)

NetFlow(after_tax, total_exp, total_inv) == RatSub(RatSub(after_tax, total_exp), total_inv)

\* a variant with the sign of the rate flipped inside the power
AnnuitySignSlip(c, r, k) ==
    IF PowOverflows(RatSub(One, r), k) THEN Raise("OverflowError")
    ELSE IF IsZero(r) THEN Raise("ZeroDivisionError")
    ELSE Value(RatDiv(RatMul(c, RatSub(RatPow(RatSub(One, r), k), One)), r))

\* c * ((1 + r)**k - 1) / r, lines 72-76
Annuity(c, r, k) ==
    IF PowOverflows(RatAdd(One, r), k) THEN Raise("OverflowError")
    ELSE IF IsZero(r) THEN Raise("ZeroDivisionError")
    ELSE Value(RatDiv(RatMul(c, RatSub(RatPow(RatAdd(One, r), k), One)), r))

\* a variant that draws the flow from the balance
NextBalSubtracts(b, f) == RatSub(b, f)

\* bal += net_flow, line 71
NextBal(b, f) == RatAdd(b, f)

\* a variant that leaves the fixed deposit out of the total
NetWorthWithoutDeposit(b, sv, bv, rv, cv, fv) ==
    RatAdd(RatAdd(RatAdd(RatAdd(b, sv), bv), rv), cv)

NetWorth(b, sv, bv, rv, cv, fv) ==
    RatAdd(RatAdd(RatAdd(RatAdd(RatAdd(b, sv), bv), rv), cv), fv)

\* range(1, months + 1) still has the month k to visit
InRange(k, n) == k >= 1 /\ k < n + 1

\* leading and trailing whitespace removed, line 190
RECURSIVE LStrip(_)
LStrip(q) == IF q # <<>> /\ Head(q) = " " THEN LStrip(Tail(q)) ELSE q

RECURSIVE RStrip(_)
RStrip(q) == IF q # <<>> /\ q[Len(q)] = " " THEN RStrip(SubSeq(q, 1, Len(q) - 1)) ELSE q

Strip(q) == RStrip(LStrip(q))

\* -------------------------------------------------------------------- state
VARIABLES
    pc,             \* where the script run stands
    error,          \* the uncaught exception that ended the run and its line
    income, tax_rate,
    housing, food, transport, utilities, entertainment, others,
    stocks, bonds, real_estate, crypto, fixed_deposit,
    months,
    est,            \* what the last call of the estimator returned
    stock_r, bond_r, real_r, crypto_r, fd_r,
    net_flow, bal, m, rows,
    session_state,  \* "absent", or the stored conversation_id ("id" or "None")
    user_message,
    calls           \* the Botpress calls of this run, in order, with their outcomes

widgets == <<income, tax_rate, housing, food, transport, utilities, entertainment,
             others, stocks, bonds, real_estate, crypto, fixed_deposit, months>>
rates == <<stock_r, bond_r, real_r, crypto_r, fd_r>>
loopvars == <<net_flow, bal, m, rows>>
botvars == <<session_state, user_message, calls>>
vars == <<pc, error, widgets, est, rates, loopvars, botvars>>

Unset == Zero
NoError == [exc |-> "none", line |-> 0]

\* a fresh interpreter: nothing is assigned yet
FreshRun ==
    /\ pc = "inputs"
    /\ error = NoError
    /\ income = 0 /\ tax_rate = 0
    /\ housing = 0 /\ food = 0 /\ transport = 0
    /\ utilities = 0 /\ entertainment = 0 /\ others = 0
    /\ stocks = 0 /\ bonds = 0 /\ real_estate = 0 /\ crypto = 0 /\ fixed_deposit = 0
    /\ months = 1
    /\ est = NoneVal
    /\ stock_r = Unset /\ bond_r = Unset /\ real_r = Unset /\ crypto_r = Unset /\ fd_r = Unset
    /\ net_flow = Unset /\ bal = Unset /\ m = 1 /\ rows = <<>>
    /\ user_message = <<>>
    /\ calls = <<>>

Init == FreshRun /\ session_state = "absent"

\* lines 34-53: the widgets hand the script their current values
ReadInputs ==
    /\ pc = "inputs"
    /\ income' \in IncomeSet
    /\ tax_rate' \in TaxRateSet
    /\ housing' \in HousingSet
    /\ food' \in FoodSet
    /\ transport' \in TransportSet
    /\ utilities' \in UtilitiesSet
    /\ entertainment' \in EntertainmentSet
    /\ others' \in OthersSet
    /\ stocks' \in InvestSet
    /\ bonds' \in InvestSet
    /\ real_estate' \in InvestSet
    /\ crypto' \in InvestSet
    /\ fixed_deposit' \in InvestSet
    /\ months' \in MonthsSet
    /\ pc' = "est_spy"
    /\ UNCHANGED <<error, est, rates, loopvars, botvars>>

\* line 56: stock_r = get_alpha_vantage_monthly_return("SPY") or 0.01
EstimateStocks ==
    /\ pc = "est_spy"
    /\ \E resp \in Responses :
          LET x == get_alpha_vantage_monthly_return(resp)
          IN  /\ est' = x
              /\ IF x.tag = "raise"
                 THEN /\ pc' = "crashed"
                      /\ error' = [exc |-> x.exc, line |-> RaiseLine(x.exc)]
                      /\ UNCHANGED stock_r
                 ELSE /\ pc' = "est_agg"
                      /\ stock_r' = OrElse(x, StockFallback)
                      /\ UNCHANGED error
    /\ UNCHANGED <<widgets, bond_r, real_r, crypto_r, fd_r, loopvars, botvars>>

\* line 57: bond_r = get_alpha_vantage_monthly_return("AGG") or 0.003
EstimateBonds ==
    /\ pc = "est_agg"
    /\ \E resp \in Responses :
          LET x == get_alpha_vantage_monthly_return(resp)
          IN  /\ est' = x
              /\ IF x.tag = "raise"
                 THEN /\ pc' = "crashed"
                      /\ error' = [exc |-> x.exc, line |-> RaiseLine(x.exc)]
                      /\ UNCHANGED bond_r
                 ELSE /\ pc' = "calc"
                      /\ bond_r' = OrElse(x, BondFallback)
                      /\ UNCHANGED error
    /\ UNCHANGED <<widgets, stock_r, real_r, crypto_r, fd_r, loopvars, botvars>>

\* lines 58-69: the fixed rates, the net flow, bal = 0, rows = []
Calculate ==
    /\ pc = "calc"
    /\ real_r' = RealRate
    /\ crypto_r' = CryptoRate
    /\ fd_r' = FdRate
    /\ LET after_tax_income == AfterTaxIncome(income, tax_rate)
           total_exp == RatAdd(Sum3(Rat(housing, 1), Rat(food, 1), Rat(transport, 1)),
                               Sum3(Rat(utilities, 1), Rat(entertainment, 1), Rat(others, 1)))
           total_inv == RatAdd(Sum3(Rat(stocks, 1), Rat(bonds, 1), Rat(real_estate, 1)),
                               RatAdd(Rat(crypto, 1), Rat(fixed_deposit, 1)))
       IN  net_flow' = NetFlow(after_tax_income, total_exp, total_inv)
    /\ bal' = Zero
    /\ rows' = <<>>
    /\ m' = 1
    /\ pc' = "loop"
    /\ UNCHANGED <<error, widgets, est, stock_r, bond_r, botvars>>

\* lines 70-87: one iteration of the projection loop
LoopStep ==
    /\ pc = "loop"
    /\ InRange(m, months)
    /\ LET new_bal == NextBal(bal, net_flow)
           stock_val == Annuity(Rat(stocks, 1), stock_r, m)
           bond_val == Annuity(Rat(bonds, 1), bond_r, m)
           real_val == Annuity(Rat(real_estate, 1), real_r, m)
           crypto_val == Annuity(Rat(crypto, 1), crypto_r, m)
           fd_val == Annuity(Rat(fixed_deposit, 1), fd_r, m)
           vals == <<stock_val, bond_val, real_val, crypto_val, fd_val>>
       IN  /\ bal' = new_bal
           /\ IF \E i \in 1..5 : vals[i].tag = "raise"
              THEN LET first == CHOOSE i \in 1..5 :
                                    /\ vals[i].tag = "raise"
                                    /\ \A j \in 1..(i - 1) : vals[j].tag # "raise"
                   IN  /\ pc' = "crashed"
                       /\ error' = [exc |-> vals[first].exc, line |-> 71 + first]
                   /\ UNCHANGED <<m, rows>>
              ELSE /\ rows' = Append(rows,
                          [Month |-> m,
                           Balance |-> new_bal,
                           Stocks |-> stock_val.v,
                           Bonds |-> bond_val.v,
                           RealEstate |-> real_val.v,
                           Crypto |-> crypto_val.v,
                           FixedDeposit |-> fd_val.v,
                           NetWorth |-> NetWorth(new_bal, stock_val.v, bond_val.v,
                                                 real_val.v, crypto_val.v, fd_val.v)])
                   /\ m' = m + 1
                   /\ UNCHANGED <<pc, error>>
    /\ UNCHANGED <<widgets, est, rates, net_flow, botvars>>

\* line 88: the range is exhausted, df = pd.DataFrame(rows)
LoopExit ==
    /\ pc = "loop"
    /\ ~InRange(m, months)
    /\ pc' = "bot_init"
    /\ UNCHANGED <<error, widgets, est, rates, loopvars, botvars>>

\* ------------------------------------------------------------ Botpress chat
Call(name, ok) == [call |-> name, ok |-> ok]

\* what session_state holds after init.json().get("id")
StoredId(has_id) == IF has_id THEN "id" ELSE "None"

\* lines 174-184: no conversation yet, so one is created
CreateConversation ==
    /\ pc = "bot_init"
    /\ session_state = "absent"
    /\ \E ok \in BOOLEAN, has_id \in BOOLEAN :
          /\ calls' = Append(calls, Call("create", ok))
          /\ IF ok
             THEN /\ session_state' = StoredId(has_id)
                  /\ pc' = "bot_input"
             ELSE /\ pc' = "stopped"
                  /\ UNCHANGED session_state
    /\ UNCHANGED <<error, widgets, est, rates, loopvars, user_message>>

\* line 174: a conversation_id is already in session_state
KeepConversation ==
    /\ pc = "bot_init"
    /\ session_state # "absent"
    /\ pc' = "bot_input"
    /\ UNCHANGED <<error, widgets, est, rates, loopvars, botvars>>

\* lines 187-194: the text input, the button and the two checks before the POST
SendToBotpress ==
    /\ pc = "bot_input"
    /\ \E msg \in Messages, clicked \in BOOLEAN :
          /\ user_message' = msg
          /\ pc' = IF ~clicked THEN "done"
                   ELSE IF Strip(msg) = <<>> THEN "done"
                   ELSE IF session_state = "absent" THEN "done"
                   ELSE "bot_post"
    /\ UNCHANGED <<error, widgets, est, rates, loopvars, session_state, calls>>

\* a variant without the st.stop() of line 218
PostMessageNoStop ==
    /\ pc = "bot_post"
    /\ \E ok \in BOOLEAN :
          /\ calls' = Append(calls, Call("post", ok))
          /\ pc' = "bot_fetch"
    /\ UNCHANGED <<error, widgets, est, rates, loopvars, session_state, user_message>>

\* lines 204-218: the message POST; a failure stops the run
PostMessage ==
    /\ pc = "bot_post"
    /\ \E ok \in BOOLEAN :
          /\ calls' = Append(calls, Call("post", ok))
          /\ pc' = IF ok THEN "bot_fetch" ELSE "stopped"
    /\ UNCHANGED <<error, widgets, est, rates, loopvars, session_state, user_message>>

\* lines 221-237: the message-history GET; a failure is only reported
FetchReply ==
    /\ pc = "bot_fetch"
    /\ \E ok \in BOOLEAN :
          /\ calls' = Append(calls, Call("get", ok))
          /\ pc' = "done"
    /\ UNCHANGED <<error, widgets, est, rates, loopvars, session_state, user_message>>

\* Streamlit runs the script again from the top; only session_state survives
Rerun ==
    /\ pc \in {"done", "stopped", "crashed"}
    /\ pc' = "inputs"
    /\ error' = NoError
    /\ income' = 0 /\ tax_rate' = 0
    /\ housing' = 0 /\ food' = 0 /\ transport' = 0
    /\ utilities' = 0 /\ entertainment' = 0 /\ others' = 0
    /\ stocks' = 0 /\ bonds' = 0 /\ real_estate' = 0 /\ crypto' = 0 /\ fixed_deposit' = 0
    /\ months' = 1
    /\ est' = NoneVal
    /\ stock_r' = Unset /\ bond_r' = Unset /\ real_r' = Unset /\ crypto_r' = Unset /\ fd_r' = Unset
    /\ net_flow' = Unset /\ bal' = Unset /\ m' = 1 /\ rows' = <<>>
    /\ user_message' = <<>>
    /\ calls' = <<>>
    /\ UNCHANGED session_state

Next ==
    \/ ReadInputs
    \/ EstimateStocks
    \/ EstimateBonds
    \/ Calculate
    \/ LoopStep
    \/ LoopExit
    \/ CreateConversation
    \/ KeepConversation
    \/ SendToBotpress
    \/ PostMessage
    \/ FetchReply
    \/ Rerun

Spec == Init /\ [][Next]_vars

\* ================================================================== claims
AfterLoop == {"bot_init", "bot_input", "bot_post", "bot_fetch", "done", "stopped"}

LoopLines == 70..88

RowAssets(row) == <<row.Stocks, row.Bonds, row.RealEstate, row.Crypto, row.FixedDeposit>>

\* C1: the projection loop never stops early and never skips a month: while it
\* runs the rows are months 1..m-1 in order, once it is left there are exactly
\* `months` rows, and no exception ever comes out of its lines, however far
\* below zero the balance goes.  (An estimated rate so large that (1 + r)**m
\* leaves the float range ends the loop with OverflowError.)
C1_LoopProducesAllRows ==
    /\ \A i \in 1..Len(rows) : rows[i].Month = i
    /\ pc = "loop" => Len(rows) = m - 1 /\ Len(rows) <= months
    /\ pc \in AfterLoop => Len(rows) = months
    /\ ~(pc = "crashed" /\ error.line \in LoopLines)

\* C2: in every row NetWorth is the Balance plus the five asset values of
\* that same row.
C2_NetWorthIsSum ==
    \A i \in 1..Len(rows) :
        rows[i].NetWorth =
            RatAdd(rows[i].Balance,
                   RatAdd(RatAdd(rows[i].FixedDeposit, rows[i].Crypto),
                          RatAdd(rows[i].RealEstate, RatAdd(rows[i].Bonds, rows[i].Stocks))))

C2_Witness ==
    /\ Len(rows) >= 2
    /\ rows[2].Balance.n # 0
    /\ \A i \in 1..5 : RowAssets(rows[2])[i].n > 0

\* the net monthly flow as the claim states it, from the widget values
ClaimedFlow ==
    LET cents == income * (100 - tax_rate)
                 - 100 * (housing + food + transport + utilities + entertainment + others)
                 - 100 * (stocks + bonds + real_estate + crypto + fixed_deposit)
    IN  Rat(cents, 100)

\* C3: the first row's Balance is the net flow f and every later row's Balance
\* is the previous row's Balance plus f, with
\* f = income*(1 - tax_rate/100) - expenses - contributions.
C3_BalanceRecurrence ==
    \A i \in 1..Len(rows) :
        rows[i].Balance = IF i = 1 THEN ClaimedFlow
                          ELSE RatAdd(rows[i - 1].Balance, ClaimedFlow)

C3_Witness ==
    /\ Len(rows) >= 2
    /\ income > 0
    /\ stocks + bonds + real_estate + crypto + fixed_deposit > 0
    /\ rows[1].Balance.n > 0
    /\ rows[2].Balance = RatAdd(rows[1].Balance, rows[1].Balance)

\* C4: get_alpha_vantage_monthly_return never raises: whatever the quote
\* lookup comes back with, the call returns None or an estimate.
C4_EstimatorNeverRaises ==
    /\ est.tag # "raise"
    /\ ~(pc = "crashed" /\ error.line \in 19..30)

\* C5: the rate the projection uses is the estimate whenever the estimator
\* returned one, zero included, and the fallback only when it returned None.
C5_FallbackOnlyWhenUnavailable ==
    /\ pc = "est_agg" => stock_r = (IF est.tag = "float" THEN est.v ELSE StockFallback)
    /\ pc = "calc" => bond_r = (IF est.tag = "float" THEN est.v ELSE BondFallback)

\* the contribution c_i, the rate r_i and the source line of each asset
Contribs == <<stocks, bonds, real_estate, crypto, fixed_deposit>>
Rates == <<stock_r, bond_r, real_r, crypto_r, fd_r>>
AssetLine(i) == 71 + i

\* C7: with f > 0 and every rate >= 0 (contributions are never negative) the
\* NetWorth of a row is at least the NetWorth of the row before it, over the
\* rows the loop appends.
C7_NetWorthMonotone ==
    (/\ Len(rows) >= 1
     /\ net_flow.n > 0
     /\ \A i \in 1..5 : Contribs[i] >= 0 /\ Rates[i].n >= 0)
    => \A k \in 2..Len(rows) : RatLeq(rows[k - 1].NetWorth, rows[k].NetWorth)

C7_Witness ==
    /\ Len(rows) >= 2
    /\ net_flow.n > 0
    /\ \A i \in 1..5 : Rates[i].n > 0
    /\ stocks > 0
    /\ stock_r # StockFallback
    /\ RatLeq(rows[1].NetWorth, rows[2].NetWorth)
    /\ rows[1].NetWorth # rows[2].NetWorth

\* C8: an asset with contribution 0 has the value 0 in every month of the
\* horizon, whatever its rate, zero included.  (Line 72 evaluates the power
\* before it multiplies by the contribution, so a rate whose power overflows
\* raises whatever the contribution.)
C8_ZeroContributionIsZero ==
    \A i \in 1..5 :
        Contribs[i] = 0 =>
            /\ ~(pc = "crashed" /\ error.line = AssetLine(i))
            /\ \A k \in 1..Len(rows) : RowAssets(rows[k])[i] = Zero

CallsOf(name) == {i \in 1..Len(calls) : calls[i].call = name}

\* C9: within one run each Botpress call is made at most once; the POST needs
\* a conversation_id in session_state and a non-blank message; the GET comes
\* right after a successful POST; a failed creation or a failed POST is the
\* last Botpress call of the run, which stops there.
C9_BotpressGated ==
    /\ \A name \in {"create", "post", "get"} : Cardinality(CallsOf(name)) <= 1
    /\ \A i \in CallsOf("post") :
          /\ session_state # "absent"
          /\ Strip(user_message) # <<>>
    /\ \A i \in CallsOf("get") : i > 1 /\ calls[i - 1] = Call("post", TRUE)
    /\ \A i \in CallsOf("create") \cup CallsOf("post") :
          ~calls[i].ok => i = Len(calls) /\ pc = "stopped"
    /\ \A i \in CallsOf("create") : i = 1

C9_Witness ==
    /\ pc = "done"
    /\ calls = <<Call("create", TRUE), Call("post", TRUE), Call("get", FALSE)>>
    /\ user_message = <<" ", "a">>

\* C10: no rate that reaches the projection loop is zero, so none of the five
\* divisions of the annuity formula divides by zero.
C10_RatesNonzero ==
    /\ pc = "est_agg" => ~IsZero(stock_r)
    /\ pc = "calc" => ~IsZero(stock_r) /\ ~IsZero(bond_r)
    /\ pc = "loop" => \A i \in 1..5 : ~IsZero(Rates[i])
    /\ ~(pc = "crashed" /\ error.exc = "ZeroDivisionError" /\ error.line \in 72..76)

C10_Witness ==
    /\ pc = "loop"
    /\ Len(rows) = months
    /\ est = Value(Zero)
    /\ bond_r = BondFallback
    /\ bonds > 0
    /\ rows[1].Bonds = Rat(bonds, 1)

====
